---------------------------- MODULE Spec2Model ----------------------------
(* A model of discord/scheduled_event.py: the ScheduledEvent instance, its  *)
(* parsing from gateway/HTTP payloads (_from_data), its comparison methods  *)
(* and the two coroutines (delete, edit) that talk to the HTTP transport.   *)
(*                                                                          *)
(* Python values are represented as follows.  None is the empty tuple and   *)
(* an Optional value x is <<x>>.  A str that carries a snowflake is the     *)
(* tuple of its decimal digits, so that int() is a real conversion.  A      *)
(* payload (a dict) is a function whose DOMAIN is the set of keys it has;   *)
(* d[k] on a missing key is a KeyError, d.get(k, default) is not.           *)
EXTENDS Integers, Sequences, FiniteSets, TLC

VARIABLES
    ev,         \* the slots of the ScheduledEvent instance
    born,       \* id and guild_id of the instance right after __init__
    pc,         \* where the instance's coroutine is: idle / edit_await / delete_await
    net,        \* the request awaiting the transport's answer (<<>> or <<req>>)
    last        \* the call in progress or last completed: its inputs, outcome and the slots before it

vars == <<ev, born, pc, net, last>>

-----------------------------------------------------------------------------
(* Bounds *)

\* a payload differs from the base payload in at most this many of its varying parts
MaxDiff == 1

-----------------------------------------------------------------------------
(* Python values *)

None == <<>>
Some(x) == <<x>>

\* truthiness of an Optional value, as in `x if channel else None`
Truthy(v) == v # None /\ v # Some(<<>>)

BoolStr(b) == IF b THEN "True" ELSE "False"

RECURSIVE DigitsToInt(_, _)
DigitsToInt(s, acc) ==
    IF s = <<>> THEN acc ELSE DigitsToInt(Tail(s), acc * 10 + Head(s))

\* int(str)
int(s) == DigitsToInt(s, 0)

RECURSIVE str(_)
\* str(int), the form in which the service sends a snowflake
str(n) == IF n < 10 THEN <<n>> ELSE Append(str(n \div 10), n % 10)

\* n >> 22
TimestampShift == 22
ShiftRight(n) == n \div (2 ^ TimestampShift)

-----------------------------------------------------------------------------
(* Names bound in the module's globals at run time (TYPE_CHECKING is False, *)
(* so the imports guarded by it bind nothing).                              *)
ModuleGlobals ==
    { "annotations", "Any", "Iterator", "List", "Optional", "TYPE_CHECKING", "Tuple",
      "utils", "MISSING", "Asset", "AssetMixin", "SnowflakeList", "snowflake_time",
      "ScheduledEventStatus", "ScheduledEventEntityType", "try_enum", "User",
      "ScheduledEvent" }

-----------------------------------------------------------------------------
(* Enumerations and helpers of the package that live outside this file *)

EventStatus == {1, 2, 3, 4}
ScheduledEventEntityType == {1, 2, 3}
EXTERNAL == 3
VOICE == 2

StatusName(c) ==
    CASE c = 1 -> "scheduled" [] c = 2 -> "active" [] c = 3 -> "completed" [] OTHER -> "canceled"
EntityTypeName(c) ==
    CASE c = 1 -> "stage_instance" [] c = 2 -> "voice" [] OTHER -> "external"

\* try_enum(cls, val): the member with that value, else an unknown value carrying val
try_enum(cls, val) ==
    IF cls = "ScheduledEventStatus"
    THEN IF val \in EventStatus
         THEN [name |-> StatusName(val), value |-> val]
         ELSE [name |-> "unknown", value |-> val]
    ELSE IF val \in ScheduledEventEntityType
         THEN [name |-> EntityTypeName(val), value |-> val]
         ELSE [name |-> "unknown", value |-> val]

\* utils.parse_time: None stays None, an ISO 8601 string becomes a datetime
parse_time(ts) == IF Truthy(ts) THEN Some([instant |-> ts[1].iso]) ELSE None

\* utils.snowflake_time: ((id >> 22) + DISCORD_EPOCH) / 1000 seconds since the
\* Unix epoch, kept as whole seconds and milliseconds (the epoch is a whole second)
DISCORD_EPOCH_SECONDS == 1420070400
snowflake_time(id) ==
    [seconds |-> DISCORD_EPOCH_SECONDS + (ShiftRight(id) \div 1000),
     millis  |-> ShiftRight(id) % 1000]

\* User(state=..., data=user)
User(data) == [id |-> int(data.id)]

-----------------------------------------------------------------------------
(* Payloads the service can send *)

\* two snowflakes, created one and two milliseconds after the epoch
Ids == { str(2 ^ TimestampShift), str(2 * (2 ^ TimestampShift)) }
Names == {"a", "b"}
Descriptions == {"d1", "d2"}
StatusCodes == {1, 99}
PayloadGuild == <<1, 0>>
GuildIds == {10, 11}

\* where the event is hosted: channel_id, entity_type, scheduled_end_time
Hostings ==
    { [channel_id |-> Some(<<7>>), entity_type |-> VOICE,    scheduled_end_time |-> None],
      [channel_id |-> None,        entity_type |-> EXTERNAL, scheduled_end_time |-> Some([iso |-> 9])],
      [channel_id |-> None,        entity_type |-> VOICE,    scheduled_end_time |-> None] }

\* the parts of a payload that vary: id, name, description, status, hosting
Shapes == Ids \X Names \X Descriptions \X StatusCodes \X Hostings

BaseShape ==
    << str(2 ^ TimestampShift), "a", "d1", 1,
       [channel_id |-> Some(<<7>>), entity_type |-> VOICE, scheduled_end_time |-> None] >>

Diff(x, y) == Cardinality({ i \in 1..5 : x[i] # y[i] })

MakePayload(x) ==
    [ id                   |-> x[1],
      guild_id             |-> PayloadGuild,
      name                 |-> x[2],
      channel_id           |-> x[5].channel_id,
      creator_id           |-> Some(<<5>>),
      description          |-> x[3],
      scheduled_start_time |-> Some([iso |-> 8]),
      scheduled_end_time   |-> x[5].scheduled_end_time,
      privacy_level        |-> 2,
      status               |-> x[4],
      entity_type          |-> x[5].entity_type,
      entity_metadata      |-> IF x[5].entity_type = EXTERNAL
                               THEN Some([location |-> "loc"]) ELSE None,
      user_count           |-> 3,
      image                |-> None,
      creator              |-> Some([id |-> <<5>>]) ]

FullPayloads == { MakePayload(x) : x \in { y \in Shapes : Diff(y, BaseShape) <= MaxDiff } }

\* the keys only a full payload carries
FullOnlyKeys == {"description", "creator", "user_count", "creator_id"}

Partial(p) == [k \in (DOMAIN p) \ FullOnlyKeys |-> p[k]]

\* the description is the same in every partial payload, so one full payload stands for each
PartialPayloads == { Partial(p) : p \in { q \in FullPayloads : q.description = "d1" } }

Payloads == FullPayloads \cup PartialPayloads

-----------------------------------------------------------------------------
(* ScheduledEvent._from_data, one assignment at a time *)

Has(d, k) == k \in DOMAIN d

\* the value of creator_id is stored as received (a str, None) or as the int default 0
PyStr(s) == [type |-> "str", v |-> s]
PyInt(n) == [type |-> "int", v |-> <<n>>]
PyNone == [type |-> "NoneType", v |-> <<>>]
AsReceived(v) == IF v = None THEN PyNone ELSE PyStr(v[1])

\* the attributes in the order _from_data assigns them
Assignments ==
    << "id", "name", "guild_id", "channel_id", "creator_id", "description",
       "scheduled_start_time", "scheduled_end_time", "privacy_level", "status",
       "entity_type", "location", "user_count", "image", "creator" >>

\* the key an assignment subscripts (d[k], a KeyError when absent); d.get(k) subscripts none
Subscripted ==
    [ id |-> "id", name |-> "name", guild_id |-> "guild_id", channel_id |-> "channel_id",
      creator_id |-> "", description |-> "description",
      scheduled_start_time |-> "scheduled_start_time",
      scheduled_end_time |-> "scheduled_end_time", privacy_level |-> "privacy_level",
      status |-> "status", entity_type |-> "entity_type", location |-> "entity_metadata",
      user_count |-> "", image |-> "image", creator |-> "" ]

\* the value an assignment stores (privacy_level and user_count arrive as JSON
\* integers, on which int() changes nothing)
Assigned(d, k) ==
    CASE k = "id" -> int(d.id)
      [] k = "name" -> d.name
      [] k = "guild_id" -> int(d.guild_id)
      [] k = "channel_id" -> IF Truthy(d.channel_id) THEN Some(int(d.channel_id[1])) ELSE None
      [] k = "creator_id" -> IF Has(d, "creator_id") THEN AsReceived(d.creator_id) ELSE PyInt(0)
      [] k = "description" -> d.description
      [] k = "scheduled_start_time" -> parse_time(d.scheduled_start_time)
      [] k = "scheduled_end_time" -> parse_time(d.scheduled_end_time)
      [] k = "privacy_level" -> d.privacy_level
      [] k = "status" -> try_enum("ScheduledEventStatus", d.status)
      [] k = "entity_type" -> try_enum("ScheduledEventEntityType", d.entity_type)
      [] k = "location" ->
           IF Truthy(d.entity_metadata)
           THEN (IF Has(d.entity_metadata[1], "location")
                 THEN Some(d.entity_metadata[1].location) ELSE None)
           ELSE None
      [] k = "user_count" -> IF Has(d, "user_count") THEN d.user_count ELSE 0
      [] k = "image" -> d.image
      [] OTHER -> IF Has(d, "creator") /\ Truthy(d.creator) THEN Some(User(d.creator[1])) ELSE None

\* the first assignment that raises KeyError on d (one past the last if none does)
FirstKeyError(d) ==
    LET bad == { i \in 1..Len(Assignments) :
                    /\ Subscripted[Assignments[i]] # ""
                    /\ ~ Has(d, Subscripted[Assignments[i]]) }
    IN  IF bad = {} THEN Len(Assignments) + 1
        ELSE CHOOSE i \in bad : \A j \in bad : i <= j

\* the place of each attribute in that order
Position ==
    [ id |-> 1, name |-> 2, guild_id |-> 3, channel_id |-> 4, creator_id |-> 5,
      description |-> 6, scheduled_start_time |-> 7, scheduled_end_time |-> 8,
      privacy_level |-> 9, status |-> 10, entity_type |-> 11, location |-> 12,
      user_count |-> 13, image |-> 14, creator |-> 15 ]

\* _from_data with the assignment of description left out
from_data_keeps_description(self, d) ==
    LET f == FirstKeyError(d)
    IN  [ ev  |-> [ k \in DOMAIN self |->
                      IF Position[k] < f /\ k # "description"
                      THEN Assigned(d, k) ELSE self[k] ],
          exc |-> IF f > Len(Assignments) THEN "ok" ELSE "KeyError" ]

\* the slots after _from_data(d), and the exception it ended with ("ok" if none):
\* the assignments before the first failing one have taken effect, the rest have not
_from_data(self, d) ==
    LET f == FirstKeyError(d)
    IN  [ ev  |-> [ k \in DOMAIN self |->
                      IF Position[k] < f THEN Assigned(d, k) ELSE self[k] ],
          exc |-> IF f > Len(Assignments) THEN "ok" ELSE "KeyError" ]

\* an object whose slots have not been assigned yet (no caller ever reads them)
Unassigned ==
    [ id |-> 0, name |-> "", guild_id |-> 0, channel_id |-> None, creator_id |-> PyNone,
      description |-> "", scheduled_start_time |-> None, scheduled_end_time |-> None,
      privacy_level |-> 0, status |-> [name |-> "unknown", value |-> 0],
      entity_type |-> [name |-> "unknown", value |-> 0], location |-> None,
      user_count |-> 0, image |-> None, creator |-> None ]

\* ScheduledEvent(guild=guild, state=state, data=data)
__init__(guild, data) == _from_data([Unassigned EXCEPT !.guild_id = guild], data)

-----------------------------------------------------------------------------
(* Comparison, hashing and derived attributes *)

\* isinstance(other, _ScheduledEventTag) and self.id == other.id
__eq__(self, other) ==
    IF "_ScheduledEventTag" \in ModuleGlobals
    THEN BoolStr(self.id = other.id)
    ELSE "NameError"

\* not self.__eq__(other)
__ne__(self, other) ==
    LET e == __eq__(self, other)
    IN  IF e \in {"True", "False"} THEN BoolStr(e = "False") ELSE e

__hash__(self) == ShiftRight(self.id)

created_at(self) == snowflake_time(self.id)

\* the guild property: self._state._get_guild(self.guild_id), then .id
guild(self) == self.guild_id

-----------------------------------------------------------------------------------------------------------------------------------------------------
(* The call in progress or last completed *)

NoData == <<>>

Done(op, result, before, data, kw, sent, transport) ==
    [ op |-> op,                \* construct / reparse / compare / edit / delete
      result |-> result,        \* what the caller got: a value or the exception raised
      before |-> before,        \* the slots when the call started
      data |-> data,            \* the payload parsed, or the transport's response
      kw |-> kw,                \* the keyword arguments of edit
      sent |-> sent,            \* the number of requests handed to the transport
      transport |-> transport,  \* how the transport answered
      ne |-> "",                \* compare: the value of a != b
      after_cancel |-> FALSE ]  \* reparse: the call before it was an edit cancelled at its await

-----------------------------------------------------------------------------
(* Construction and parsing *)

Init ==
    /\ \E g \in GuildIds, d \in { p \in FullPayloads : p.id = BaseShape[1] } :
        \E r \in {__init__(g, d)} :
          /\ r.exc = "ok"
          /\ ev = r.ev
          /\ last = Done("construct", "ok", Unassigned, d, NoData, 0, "none")
    /\ born = [id |-> ev.id, guild_id |-> ev.guild_id]
    /\ pc = "idle"
    /\ net = <<>>

\* a fresher payload for the event arrives and is parsed into the instance
Reparse(d) ==
    /\ pc = "idle"
    /\ \E r \in {_from_data(ev, d)} :
           /\ ev' = r.ev
           /\ last' = [Done("reparse", r.exc, ev, d, NoData, 0, "none") EXCEPT
                          !.after_cancel = (last.op = "edit" /\ last.result = "CancelledError")]
    /\ UNCHANGED <<born, pc, net>>

\* a second instance is constructed from d and compared with this one: a == b, a != b
Compare(d) ==
    /\ pc = "idle"
    /\ \E b \in {__init__(guild(ev), d)} :
           last' = IF b.exc # "ok"
                   THEN Done("compare", b.exc, ev, d, NoData, 0, "none")
                   ELSE [Done("compare", __eq__(ev, b.ev), ev, d, NoData, 0, "none")
                            EXCEPT !.ne = __ne__(ev, b.ev)]
    /\ UNCHANGED <<ev, born, pc, net>>

-----------------------------------------------------------------------------
(* delete and edit *)

RemoteErrors == {"Forbidden", "NotFound", "RateLimited", "Network", "ServerError"}

\* the keyword arguments a caller may pass to edit: the fields of EditScheduledEvent, and roles
EditScheduledEvent ==
    { "channel_id", "name", "privacy_level", "scheduled_start_time", "scheduled_end_time",
      "description", "entity_type", "status", "image" }
KwKeys == EditScheduledEvent \cup {"roles"}

KwValue ==
    [ channel_id |-> None, name |-> "b", privacy_level |-> 2,
      scheduled_start_time |-> [iso |-> 8], scheduled_end_time |-> [iso |-> 9],
      description |-> "d2", entity_type |-> EXTERNAL, status |-> 2, image |-> "img",
      roles |-> << [id |-> 20] >> ]

\* the sets of keyword arguments passed: none, each one alone, and the pairs that
\* belong together
KwSets ==
    { {} } \cup { {k} : k \in KwKeys }
           \cup { {"name", "roles"}, {"entity_type", "scheduled_end_time"},
                  {"entity_type", "channel_id"}, {"name", "description"} }

Kwargs == { [k \in S |-> IF k = "name" THEN n ELSE KwValue[k]] : S \in KwSets, n \in Names }

\* the keyword-only parameters of edit
Parameters == {"name", "roles", "reason"}

\* payload = {}; name and roles are added when they are not MISSING
EditPayload(kw) ==
    [ k \in (DOMAIN kw) \cap {"name", "roles"} |->
        IF k = "name" THEN kw.name ELSE [i \in DOMAIN kw.roles |-> kw.roles[i].id] ]

\* the call binds its keyword arguments, builds the payload and awaits the transport
edit(kw) ==
    /\ pc = "idle"
    /\ IF ~ (DOMAIN kw \subseteq Parameters)
       THEN /\ last' = Done("edit", "TypeError", ev, NoData, kw, 0, "none")
            /\ UNCHANGED <<pc, net>>
       ELSE /\ net' = << [ endpoint |-> "edit_custom_emoji", guild_id |-> guild(ev),
                           id |-> ev.id, payload |-> EditPayload(kw) ] >>
            /\ pc' = "edit_await"
            /\ last' = Done("edit", "pending", ev, NoData, kw, 1, "none")
    /\ UNCHANGED <<ev, born>>

delete ==
    /\ pc = "idle"
    /\ net' = << [ endpoint |-> "delete_scheduled_event", guild_id |-> guild(ev),
                   id |-> ev.id, payload |-> NoData ] >>
    /\ pc' = "delete_await"
    /\ last' = Done("delete", "pending", ev, NoData, NoData, 1, "none")
    /\ UNCHANGED <<ev, born>>

\* the awaited call wrapped in a handler that re-raises every failure as HTTPException
RaisedAsHTTPException(self, err) == [ev |-> self, result |-> "HTTPException"]

\* what the coroutine does when the awaited transport call raises err:
\* nothing catches it, so it reaches the caller and no slot is touched
Raised(self, err) == [ev |-> self, result |-> err]

\* what edit does with the transport's response: return Emoji(guild=..., data=data, state=...)
EditReturn(self, data) ==
    [ ev |-> self,
      result |-> IF "Emoji" \in ModuleGlobals THEN "Emoji" ELSE "NameError" ]

\* what delete does with the transport's response: it returns None
DeleteReturn(self) == [ev |-> self, result |-> "None"]

\* what the coroutine does when it is cancelled at the await: CancelledError is raised there
Cancelled(self) == [ev |-> self, result |-> "CancelledError"]

\* the payloads the transport can answer an edit with
Responses(req) == { p \in FullPayloads : int(p.id) = req.id }

TransportRaises(err) ==
    /\ pc \in {"edit_await", "delete_await"}
    /\ \E r \in {Raised(ev, err)} :
           /\ ev' = r.ev
           /\ last' = [last EXCEPT !.result = r.result, !.transport = err]
    /\ pc' = "idle"
    /\ net' = <<>>
    /\ UNCHANGED born

EditResponds(data) ==
    /\ pc = "edit_await"
    /\ data \in Responses(net[1])
    /\ \E r \in {EditReturn(ev, data)} :
           /\ ev' = r.ev
           /\ last' = [last EXCEPT !.result = r.result, !.transport = "ok", !.data = data]
    /\ pc' = "idle"
    /\ net' = <<>>
    /\ UNCHANGED born

DeleteResponds ==
    /\ pc = "delete_await"
    /\ \E r \in {DeleteReturn(ev)} :
           /\ ev' = r.ev
           /\ last' = [last EXCEPT !.result = r.result, !.transport = "ok"]
    /\ pc' = "idle"
    /\ net' = <<>>
    /\ UNCHANGED born

\* the caller cancels the wait; the request may or may not have reached the service
Cancel(landed) ==
    /\ pc \in {"edit_await", "delete_await"}
    /\ \E r \in {Cancelled(ev)} :
           /\ ev' = r.ev
           /\ last' = [last EXCEPT !.result = r.result,
                                   !.transport = IF landed THEN "landed" ELSE "dropped"]
    /\ pc' = "idle"
    /\ net' = <<>>
    /\ UNCHANGED born

Next ==
    \/ \E d \in Payloads : Reparse(d)
    \/ \E d \in Payloads : Compare(d)
    \/ \E kw \in Kwargs : edit(kw)
    \/ delete
    \/ \E err \in RemoteErrors : TransportRaises(err)
    \/ \E data \in FullPayloads : EditResponds(data)
    \/ DeleteResponds
    \/ \E landed \in BOOLEAN : Cancel(landed)

Spec == Init /\ [][Next]_vars

(* Properties *)

\* the instance e was populated from one full payload
Whole(e) == \E d \in FullPayloads : e = __init__(10, d).ev

\* every slot of e carries what the full payload d says, read back in the payload's own form
EqualsRemote(e, d) ==
    /\ str(e.id) = d.id
    /\ str(e.guild_id) = d.guild_id
    /\ e.name = d.name
    /\ e.description = d.description
    /\ (e.channel_id = None) = (d.channel_id = None)
    /\ e.channel_id # None => str(e.channel_id[1]) = d.channel_id[1]
    /\ e.creator_id.type = "str" /\ e.creator_id.v = d.creator_id[1]
    /\ e.scheduled_start_time # None /\ e.scheduled_start_time[1].instant = d.scheduled_start_time[1].iso
    /\ (e.scheduled_end_time = None) = (d.scheduled_end_time = None)
    /\ e.scheduled_end_time # None => e.scheduled_end_time[1].instant = d.scheduled_end_time[1].iso
    /\ e.privacy_level = d.privacy_level
    /\ e.status.value = d.status
    /\ e.entity_type.value = d.entity_type
    /\ (e.location = None) = (d.entity_metadata = None)
    /\ e.location # None => e.location[1] = d.entity_metadata[1].location
    /\ e.user_count = d.user_count
    /\ e.image = d.image
    /\ e.creator # None /\ str(e.creator[1].id) = d.creator[1].id

\* C1: when the transport's edit call succeeds, edit returns the instance it was called
\* on, and that instance's slots are those parsed from the response payload.
C1_EditUpdatesInPlace ==
    (last.op = "edit" /\ last.transport = "ok") =>
        /\ last.result = "self"
        /\ EqualsRemote(ev, last.data)

\* C2: reparsing an instance populated from a full payload with a partial payload
\* succeeds, keeps the value of every field the partial payload lacks and takes
\* every field it carries.
C2_ReparsePartialKeeps ==
    (last.op = "reparse" /\ last.data \in PartialPayloads /\ Whole(last.before)) =>
        /\ last.result = "ok"
        /\ ev.description = last.before.description
        /\ ev.creator_id = last.before.creator_id
        /\ ev.user_count = last.before.user_count
        /\ ev.creator = last.before.creator
        /\ ev.name = last.data.name
        /\ ev.status.value = last.data.status
        /\ ev.entity_type.value = last.data.entity_type

\* C3: id and guild_id always have the values they had right after construction; a
\* reparse with a payload for another id does not overwrite them.
C3_IdentityNeverChanges ==
    /\ ev.id = born.id
    /\ ev.guild_id = born.guild_id

\* C4: a == b is True exactly when the ids are equal and False otherwise, a != b is
\* its negation, and neither raises.
C4_EqualityById ==
    (last.op = "compare" /\ last.data \in FullPayloads) =>
        /\ last.result = BoolStr(ev.id = int(last.data.id))
        /\ last.ne = BoolStr(ev.id # int(last.data.id))

\* C5: an edit that sets entity_type to EXTERNAL while scheduled_end_time is neither
\* passed nor set on the instance fails with ValidationError, hands nothing to the
\* transport and leaves the instance as it was.
C5_ExternalNeedsEndTime ==
    ( /\ last.op = "edit"
      /\ "entity_type" \in DOMAIN last.kw
      /\ last.kw.entity_type = EXTERNAL
      /\ "scheduled_end_time" \notin DOMAIN last.kw
      /\ last.before.scheduled_end_time = None ) =>
        /\ last.result = "ValidationError"
        /\ last.sent = 0
        /\ ev = last.before

\* C6: when the transport call of delete or edit fails with a RemoteError, the caller
\* gets that same error kind and every slot has the value it had before the call.
C6_RemoteErrorSurfaces ==
    (last.op \in {"edit", "delete"} /\ last.transport \in RemoteErrors) =>
        /\ last.result = last.transport
        /\ ev = last.before
        /\ pc = "idle"

\* C6 witness: a delete of an instance that had been updated since construction was
\* answered NotFound.
C6_Witness ==
    /\ last.op = "delete"
    /\ last.transport = "NotFound"
    /\ last.sent = 1
    /\ ev.name = "b"

\* C7: for a set of EditScheduledEvent fields passed to edit (one that passes the
\* entity-type check of C5), a request is handed to the transport and its document has
\* exactly the passed fields with the passed values.
C7_RequestCarriesSupplied ==
    ( /\ last.op = "edit"
      /\ last.result = "pending" \/ last.sent = 0
      /\ DOMAIN last.kw \subseteq EditScheduledEvent
      /\ ~ ( /\ "entity_type" \in DOMAIN last.kw
             /\ "scheduled_end_time" \notin DOMAIN last.kw
             /\ last.before.scheduled_end_time = None ) ) =>
        /\ last.sent = 1
        /\ net # <<>>
        /\ DOMAIN net[1].payload = DOMAIN last.kw
        /\ \A k \in DOMAIN last.kw : net[1].payload[k] = last.kw[k]

\* C8: an instance constructed or reparsed from a full payload has channel_id None
\* exactly when its entity_type is EXTERNAL.
C8_ChannelNullIffExternal ==
    (last.op \in {"construct", "reparse"} /\ last.data \in FullPayloads) =>
        ((ev.channel_id = None) <=> (ev.entity_type.value = EXTERNAL))

\* C9: a payload with an unrecognized status code is parsed without error into an
\* unknown value carrying the code, and comparing the resulting instance still
\* answers by id alone.
C9_UnknownCodeTolerated ==
    /\ ( /\ last.op \in {"construct", "reparse"}
         /\ last.data \in FullPayloads
         /\ last.data.status \notin EventStatus ) =>
           /\ last.result = "ok"
           /\ ev.status = [name |-> "unknown", value |-> last.data.status]
    /\ ( /\ last.op = "compare"
         /\ last.data \in FullPayloads
         /\ ev.status.name = "unknown" ) =>
           /\ last.result = BoolStr(ev.id = int(last.data.id))
           /\ __hash__(ev) = ShiftRight(ev.id)

=============================================================================
